---- MODULE Spec2Model ----
\* netsert: the concurrent runner (pkg/runner), the credential merge
\* (pkg/runner + pkg/config), assertion evaluation (pkg/assertion), the path
\* tokenizer (pkg/gnmiclient) and the run command (cmd/netsert).
\*
\* Go strings that are inspected character by character (fetched values,
\* predicate operands) are sequences of one-character strings; strings that
\* are only compared as a whole (hosts, user names) are TLA+ strings.  An
\* error is the sequence of its message parts, the nil error is <<>>.  A nil
\* pointer is the empty sequence None, a non-nil pointer to x is <<x>>.
\*
\* Steps of one goroutine that touch nothing shared are merged into the
\* step that ends them: a send on a channel, a lock, a call of the
\* transport.  Spec is a run of Runner.Run, SpecCancel the same run with an
\* interrupt, SpecFailFast the run started with and without --fail-fast,
\* SpecLive the run under weak fairness, with limits down to -1.
\* SpecApplyConfig is the credential merge, SpecValidate the evaluation of
\* an assertion, SpecSplitPath the path tokenizer, SpecParsePath the path
\* parser, SpecExpandPath the short path forms and SpecReport the report
\* of the run command, each applied to every input of a bounded set.
EXTENDS Integers, Sequences, FiniteSets, Bags, TLC

\* ---------------------------------------------------------------- bounds
MaxTargets == 2
MaxAssertions == 2
MaxWorkers == 2
MaxParallel == 2
MaxFileAssertions == 2
MaxReportResults == 3
MaxPathLen == 4
MaxSegmentLen == 5
MaxTailLen == 4

\* ------------------------------------------------------- pointers, errors
None == <<>>
Some(x) == <<x>>
ErrNil == <<>>

\* --------------------------------------------------------------- strings
Digits == {"0", "1", "2", "3", "4", "5", "6", "7", "8", "9"}

DigitVal(c) ==
  CASE c = "0" -> 0 [] c = "1" -> 1 [] c = "2" -> 2 [] c = "3" -> 3
    [] c = "4" -> 4 [] c = "5" -> 5 [] c = "6" -> 6 [] c = "7" -> 7
    [] c = "8" -> 8 [] c = "9" -> 9

\* strings.Contains(s, sub)
Contains(s, sub) ==
  \E i \in 0..(Len(s) - Len(sub)) : SubSeq(s, i + 1, i + Len(sub)) = sub

RECURSIVE Pow10(_)
Pow10(n) == IF n = 0 THEN 1 ELSE 10 * Pow10(n - 1)

RECURSIVE DigitsToInt(_)
DigitsToInt(s) ==
  IF s = <<>> THEN 0
  ELSE 10 * DigitsToInt(SubSeq(s, 1, Len(s) - 1)) + DigitVal(s[Len(s)])

\* strconv.ParseFloat(s, 64) on the decimal fragment [+-]?(D+(.D*)?|.D+):
\* the value is num/den; anything else in the model's alphabet is a syntax
\* error, for which Go returns 0 together with the error.
ParseFloat(s) ==
  LET signed == Len(s) > 0 /\ s[1] \in {"+", "-"}
      body == IF signed THEN SubSeq(s, 2, Len(s)) ELSE s
      dots == {i \in 1..Len(body) : body[i] = "."}
      digs == SelectSeq(body, LAMBDA c : c \in Digits)
      wellFormed == /\ \A i \in 1..Len(body) : body[i] \in Digits \cup {"."}
                    /\ Cardinality(dots) <= 1
                    /\ Len(digs) >= 1
      frac == IF dots = {} THEN 0 ELSE Len(body) - (CHOOSE i \in dots : TRUE)
      mag == DigitsToInt(digs)
  IN IF wellFormed
       THEN [ok |-> TRUE,
             num |-> IF signed /\ s[1] = "-" THEN 0 - mag ELSE mag,
             den |-> Pow10(frac)]
       ELSE [ok |-> FALSE, num |-> 0, den |-> 1]

FloatGT(x, y) == x.num * y.den > y.num * x.den
FloatLT(x, y) == x.num * y.den < y.num * x.den
FloatGTEStrict(x, y) == x.num * y.den > y.num * x.den
FloatGTE(x, y) == x.num * y.den >= y.num * x.den
FloatLTE(x, y) == x.num * y.den <= y.num * x.den

\* regexp.Compile on the fragment: literals, '.', '^', '$' and plain groups
\* '(' ... ')'.  A pattern of the fragment fails to compile exactly when its
\* parentheses are unbalanced.
RECURSIVE ParenDepthOK(_, _, _)
ParenDepthOK(p, i, depth) ==
  IF i > Len(p) THEN depth = 0
  ELSE IF p[i] = "(" THEN ParenDepthOK(p, i + 1, depth + 1)
  ELSE IF p[i] = ")" THEN depth > 0 /\ ParenDepthOK(p, i + 1, depth - 1)
  ELSE ParenDepthOK(p, i + 1, depth)

RegexpCompileOK(p) == ParenDepthOK(p, 1, 0)

RECURSIVE MatchHere(_, _, _, _)
MatchHere(p, i, v, j) ==
  IF i > Len(p) THEN TRUE
  ELSE IF p[i] \in {"(", ")"} THEN MatchHere(p, i + 1, v, j)
  ELSE IF p[i] = "^" THEN j = 1 /\ MatchHere(p, i + 1, v, j)
  ELSE IF p[i] = "$" THEN j = Len(v) + 1 /\ MatchHere(p, i + 1, v, j)
  ELSE IF p[i] = "." THEN j <= Len(v) /\ MatchHere(p, i + 1, v, j + 1)
  ELSE j <= Len(v) /\ v[j] = p[i] /\ MatchHere(p, i + 1, v, j + 1)

\* (*regexp.Regexp).MatchString: the pattern is searched anywhere in v
MatchString(p, v) == \E j \in 1..(Len(v) + 1) : MatchHere(p, 1, v, j)

\* ------------------------------------------------- assertion.Assertion
NoPredicate ==
  [Name |-> "", Path |-> "", Equals |-> None, Contains |-> None,
   Matches |-> None, Exists |-> None, Absent |-> None,
   GT |-> None, LT |-> None, GTE |-> None, LTE |-> None]

\* (*Assertion).GetName
GetName(a) == IF a.Name # "" THEN a.Name ELSE a.Path

\* the Result Validate starts from (lines 62-65)
NewResult(a, value) ==
  [Target |-> "", Assertion |-> a, Passed |-> FALSE, ActualValue |-> value,
   Error |-> ErrNil]

\* the numeric comparisons with the error of ParseFloat(value) discarded,
\* as the errors of the thresholds are
ValidateNumericIgnoresErr(a, value) ==
  LET result == NewResult(a, value)
      actualNum == ParseFloat(value)
  IN
  IF a.GT # None
    THEN [result EXCEPT !.Passed = FloatGT(actualNum, ParseFloat(a.GT[1]))]
  ELSE IF a.LT # None
    THEN [result EXCEPT !.Passed = FloatLT(actualNum, ParseFloat(a.LT[1]))]
  ELSE IF a.GTE # None
    THEN [result EXCEPT !.Passed = FloatGTE(actualNum, ParseFloat(a.GTE[1]))]
  ELSE [result EXCEPT !.Passed = FloatLTE(actualNum, ParseFloat(a.LTE[1]))]

\* the numeric comparisons with the error of ParseFloat(threshold) returned
\* as an error Result instead of being discarded
ValidateNumericChecksThreshold(a, value) ==
  LET result == NewResult(a, value)
      actualNum == ParseFloat(value)
      threshold == ParseFloat(IF a.GT # None THEN a.GT[1]
                              ELSE IF a.LT # None THEN a.LT[1]
                              ELSE IF a.GTE # None THEN a.GTE[1] ELSE a.LTE[1])
  IN
  IF ~actualNum.ok THEN [result EXCEPT !.Error = <<"value is not numeric">>]
  ELSE IF ~threshold.ok
    THEN [result EXCEPT !.Error = <<"threshold is not numeric">>]
  ELSE IF a.GT # None THEN [result EXCEPT !.Passed = FloatGT(actualNum, threshold)]
  ELSE IF a.LT # None THEN [result EXCEPT !.Passed = FloatLT(actualNum, threshold)]
  ELSE IF a.GTE # None
    THEN [result EXCEPT !.Passed = FloatGTE(actualNum, threshold)]
  ELSE [result EXCEPT !.Passed = FloatLTE(actualNum, threshold)]

\* (*Assertion).Validate, lines 107-131: the numeric comparisons
ValidateNumeric(a, value) ==
  LET result == NewResult(a, value)
      actualNum == ParseFloat(value)
  IN
  IF ~actualNum.ok THEN [result EXCEPT !.Error = <<"value is not numeric">>]
  ELSE IF a.GT # None
    THEN [result EXCEPT !.Passed = FloatGT(actualNum, ParseFloat(a.GT[1]))]
  ELSE IF a.LT # None
    THEN [result EXCEPT !.Passed = FloatLT(actualNum, ParseFloat(a.LT[1]))]
  ELSE IF a.GTE # None
    THEN [result EXCEPT !.Passed = FloatGTE(actualNum, ParseFloat(a.GTE[1]))]
  ELSE [result EXCEPT !.Passed = FloatLTE(actualNum, ParseFloat(a.LTE[1]))]

\* the predicates on the value with the Contains block placed above the
\* Equals block
ValidateValueContainsFirst(a, value) ==
  LET result == NewResult(a, value)
  IN
  IF a.Contains # None
    THEN [result EXCEPT !.Passed = Contains(value, a.Contains[1])]
  ELSE IF a.Equals # None THEN [result EXCEPT !.Passed = (value = a.Equals[1])]
  ELSE IF a.Matches # None
    THEN IF ~RegexpCompileOK(a.Matches[1])
           THEN [result EXCEPT !.Error = <<"invalid regex">>]
           ELSE [result EXCEPT !.Passed = MatchString(a.Matches[1], value)]
  ELSE IF a.GT # None \/ a.LT # None \/ a.GTE # None \/ a.LTE # None
    THEN ValidateNumeric(a, value)
  ELSE [result EXCEPT !.Error = <<"no assertion type specified">>]

\* the predicates on the value without the closing error of lines 132-133:
\* an assertion with no predicate returns the untouched Result
ValidateValueNoDefault(a, value) ==
  LET result == NewResult(a, value)
  IN
  IF a.Equals # None THEN [result EXCEPT !.Passed = (value = a.Equals[1])]
  ELSE IF a.Contains # None
    THEN [result EXCEPT !.Passed = Contains(value, a.Contains[1])]
  ELSE IF a.Matches # None
    THEN IF ~RegexpCompileOK(a.Matches[1])
           THEN [result EXCEPT !.Error = <<"invalid regex">>]
           ELSE [result EXCEPT !.Passed = MatchString(a.Matches[1], value)]
  ELSE IF a.GT # None \/ a.LT # None \/ a.GTE # None \/ a.LTE # None
    THEN ValidateNumeric(a, value)
  ELSE result

\* (*Assertion).Validate, lines 85-133: the predicates on the value
ValidateValue(a, value) ==
  LET result == NewResult(a, value)
  IN
  IF a.Equals # None THEN [result EXCEPT !.Passed = (value = a.Equals[1])]
  ELSE IF a.Contains # None
    THEN [result EXCEPT !.Passed = Contains(value, a.Contains[1])]
  ELSE IF a.Matches # None
    THEN IF ~RegexpCompileOK(a.Matches[1])
           THEN [result EXCEPT !.Error = <<"invalid regex">>]
           ELSE [result EXCEPT !.Passed = MatchString(a.Matches[1], value)]
  ELSE IF a.GT # None \/ a.LT # None \/ a.GTE # None \/ a.LTE # None
    THEN ValidateNumeric(a, value)
  ELSE [result EXCEPT !.Error = <<"no assertion type specified">>]

\* Validate with the existence check of lines 79-83 placed above the
\* Exists and Absent blocks
ValidateExistsLate(a, value, exists) ==
  LET result == NewResult(a, value)
  IN
  IF ~exists THEN [result EXCEPT !.Error = <<"path does not exist">>]
  ELSE IF a.Exists # None /\ a.Exists[1] THEN [result EXCEPT !.Passed = exists]
  ELSE IF a.Absent # None /\ a.Absent[1] THEN [result EXCEPT !.Passed = ~exists]
  ELSE ValidateValue(a, value)

\* Validate with the existence check returning the Result without an error
ValidateMissingFails(a, value, exists) ==
  LET result == NewResult(a, value)
  IN
  IF a.Exists # None /\ a.Exists[1] THEN [result EXCEPT !.Passed = exists]
  ELSE IF a.Absent # None /\ a.Absent[1] THEN [result EXCEPT !.Passed = ~exists]
  ELSE IF ~exists THEN result
  ELSE ValidateValue(a, value)

\* Validate without the return of the Absent block (line 76): the Result
\* goes on to the existence check with Passed already set
ValidateAbsentFallsThrough(a, value, exists) ==
  LET result == NewResult(a, value)
      absent == a.Absent # None /\ a.Absent[1]
      afterAbsent == IF absent THEN [result EXCEPT !.Passed = ~exists] ELSE result
  IN
  IF a.Exists # None /\ a.Exists[1] THEN [result EXCEPT !.Passed = exists]
  ELSE IF ~exists THEN [afterAbsent EXCEPT !.Error = <<"path does not exist">>]
  ELSE ValidateValue(a, value)

\* (*Assertion).Validate
Validate(a, value, exists) ==
  LET result == NewResult(a, value)
  IN
  IF a.Exists # None /\ a.Exists[1] THEN [result EXCEPT !.Passed = exists]
  ELSE IF a.Absent # None /\ a.Absent[1] THEN [result EXCEPT !.Passed = ~exists]
  ELSE IF ~exists THEN [result EXCEPT !.Error = <<"path does not exist">>]
  ELSE ValidateValue(a, value)

\* ------------------------------------------ assertion.Target, config.Config
\* (*Target).GetHost
GetHost(t) == IF t.Host # "" THEN t.Host ELSE t.Address

\* yaml.Unmarshal into assertion.Target: a key the YAML document leaves out
\* decodes to the field's zero value ("" or false).
DecodeTarget(d) ==
  [Host |-> d.host, Address |-> "",
   Username |-> IF d.username = None THEN "" ELSE d.username[1],
   Password |-> IF d.password = None THEN "" ELSE d.password[1],
   Insecure |-> IF d.insecure = None THEN FALSE ELSE d.insecure[1],
   Assertions |-> d.assertions]

\* (*Config).GetCredentials
GetCredentials(c, address) ==
  LET has == address \in DOMAIN c.Targets
      u0 == IF has THEN c.Targets[address].Username ELSE ""
      p0 == IF has THEN c.Targets[address].Password ELSE ""
      i0 == IF has /\ c.Targets[address].Insecure # None
              THEN c.Targets[address].Insecure[1] ELSE FALSE
  IN [username |-> IF u0 = "" THEN c.Defaults.Username ELSE u0,
      password |-> IF p0 = "" THEN c.Defaults.Password ELSE p0,
      insecure |-> IF ~i0 THEN c.Defaults.Insecure ELSE i0]

\* (*Runner).applyConfig; config is r.Config (None when nil)
applyConfig(config, target) ==
  IF config = None THEN target
  ELSE LET cred == GetCredentials(config[1], GetHost(target))
       IN [target EXCEPT
             !.Username = IF target.Username = "" THEN cred.username ELSE @,
             !.Password = IF target.Password = "" THEN cred.password ELSE @,
             !.Insecure = IF ~target.Insecure THEN cred.insecure ELSE @]

\* ------------------------------------------------------ gnmiclient.Client
TextNotFound == <<"N", "o", "t", "F", "o", "u", "n", "d">>
TextNotFoundLower == <<"n", "o", "t", " ", "f", "o", "u", "n", "d">>
TextUnavailable == <<"U", "n", "a", "v", "a", "i", "l", "a", "b", "l", "e">>
TextCanceled == <<"c", "a", "n", "c", "e", "l", "e", "d">>

RpcUpdate(v) == [kind |-> "update", val |-> v, text |-> <<>>]
RpcEmpty == [kind |-> "empty", val |-> <<>>, text |-> <<>>]
RpcError(text) == [kind |-> "error", val |-> <<>>, text |-> text]

\* Get without the test of lines 273-275: every error of c.client.Get is
\* returned as a "get" error
ClientGetNoNotFound(rpc) ==
  IF rpc.kind = "error"
    THEN [value |-> <<>>, exists |-> FALSE, err |-> <<"get">> \o rpc.text]
  ELSE IF rpc.kind = "empty"
    THEN [value |-> <<>>, exists |-> FALSE, err |-> ErrNil]
  ELSE [value |-> rpc.val, exists |-> TRUE, err |-> ErrNil]

\* (*Client).Get after the request is sent: rpc is what c.client.Get
\* returned (an error with its text, a response without notification or
\* update, or a response whose first update carries val)
ClientGet(rpc) ==
  IF rpc.kind = "error"
    THEN IF Contains(rpc.text, TextNotFound) \/ Contains(rpc.text, TextNotFoundLower)
           THEN [value |-> <<>>, exists |-> FALSE, err |-> ErrNil]
           ELSE [value |-> <<>>, exists |-> FALSE, err |-> <<"get">> \o rpc.text]
  ELSE IF rpc.kind = "empty"
    THEN [value |-> <<>>, exists |-> FALSE, err |-> ErrNil]
  ELSE [value |-> rpc.val, exists |-> TRUE, err |-> ErrNil]

\* ---------------------------------------------------------- runner.Runner
\* max(a, b)
max(a, b) == IF a > b THEN a ELSE b

\* runAssertion without the err != nil branch of lines 192-197
runAssertionDropsErr(target, a, rpc) ==
  LET g == ClientGet(rpc)
  IN [Validate(a, g.value, g.exists) EXCEPT !.Target = GetHost(target)]

\* (*Runner).runAssertion followed by the stamping of res.Target
\* (runTarget, line 173)
runAssertion(target, a, rpc) ==
  LET g == ClientGet(rpc)
      res == IF g.err # ErrNil
               THEN [Target |-> "", Assertion |-> a, Passed |-> FALSE,
                     ActualValue |-> <<>>, Error |-> g.err]
               ELSE Validate(a, g.value, g.exists)
  IN [res EXCEPT !.Target = GetHost(target)]

\* the status printResult writes for a Result
printStatus(res) ==
  IF res.Error # ErrNil THEN "ERROR" ELSE IF ~res.Passed THEN "FAIL" ELSE "PASS"

RECURSIVE TallyNoElse(_)
\* the tally loop with the first "else" of lines 106-112 dropped: an errored
\* Result falls through to the Passed/Failed branches as well
TallyNoElse(rs) ==
  IF rs = <<>>
    THEN [TotalAssertions |-> 0, Passed |-> 0, Failed |-> 0, Errors |-> 0]
    ELSE LET r == TallyNoElse(Tail(rs))
             res == Head(rs)
         IN [TotalAssertions |-> r.TotalAssertions + 1,
             Errors |-> r.Errors + (IF res.Error # ErrNil THEN 1 ELSE 0),
             Passed |-> r.Passed + (IF res.Passed THEN 1 ELSE 0),
             Failed |-> r.Failed + (IF ~res.Passed THEN 1 ELSE 0)]

RECURSIVE Tally(_)
\* the tally loop of Run (lines 104-113) over a Result sequence
Tally(rs) ==
  IF rs = <<>>
    THEN [TotalAssertions |-> 0, Passed |-> 0, Failed |-> 0, Errors |-> 0]
    ELSE LET r == Tally(Tail(rs))
             res == Head(rs)
         IN [TotalAssertions |-> r.TotalAssertions + 1,
             Errors |-> r.Errors + (IF res.Error # ErrNil THEN 1 ELSE 0),
             Passed |-> r.Passed +
                        (IF res.Error = ErrNil /\ res.Passed THEN 1 ELSE 0),
             Failed |-> r.Failed +
                        (IF res.Error = ErrNil /\ ~res.Passed THEN 1 ELSE 0)]


\* ------------------------------------------------------------ the inputs
Str(c) == <<c>>
StrUP == <<"U", "P">>

\* the assertions a file is written with, by position in the target
PoolAssertion(i) ==
  CASE i % 3 = 1 -> [NoPredicate EXCEPT !.Path = "/p1", !.Equals = Some(StrUP)]
    [] i % 3 = 2 -> [NoPredicate EXCEPT !.Path = "/p2", !.Name = "n2",
                                        !.GT = Some(Str("5"))]
    [] OTHER     -> [NoPredicate EXCEPT !.Path = "/p3", !.Exists = Some(TRUE)]

HostName(t) == "h" \o ToString(t)

\* a target of the file: target 1 declares no credentials, the others do
FileTarget(t, n) ==
  [Host |-> IF t % 2 = 1 THEN HostName(t) ELSE "",
   Address |-> IF t % 2 = 1 THEN "" ELSE HostName(t),
   Username |-> IF t = 1 THEN "" ELSE "admin",
   Password |-> IF t = 1 THEN "" ELSE "secret",
   Insecure |-> t # 1,
   Assertions |-> [i \in 1..n |-> PoolAssertion(i)]]

RECURSIVE SumTo(_, _)
SumTo(k, n) == IF n = 0 THEN 0 ELSE k[n] + SumTo(k, n - 1)

\* the files: up to MaxTargets targets of up to MaxAssertions assertions
\* each, MaxFileAssertions assertions at most in the whole file
Files ==
  UNION {{[t \in 1..n |-> FileTarget(t, k[t])] :
            k \in {f \in [1..n -> 0..MaxAssertions] :
                     SumTo(f, n) <= MaxFileAssertions}} : n \in 0..MaxTargets}

RunConfig ==
  [Defaults |-> [Username |-> "cfguser", Password |-> "cfgpass",
                 Insecure |-> TRUE],
   Targets |-> [h \in {HostName(1)} |->
                  [Username |-> "h1user", Password |-> "",
                   Insecure |-> Some(FALSE)]]]

\* what the device answers to one Get; a cancelled context adds the
\* transport's cancellation error
RunnerRpcs(c) ==
  {RpcUpdate(StrUP), RpcUpdate(Str("7")), RpcError(TextUnavailable)}
  \cup (IF c THEN {RpcError(TextCanceled)} ELSE {})

\* ------------------------------------------------------------- the state
VARIABLES
  af,          \* the assertion file passed to Run
  Workers,     \* Runner.Workers
  Parallel,    \* Runner.Parallel
  Config,      \* Runner.Config (None = nil)
  cancelled,   \* ctx of Run has been cancelled
  unfetched,   \* assertions whose fetch had not begun when ctx was cancelled
  mpc,         \* Run: "idle", "wait" (wg.Wait), "done"
  tpc,         \* the goroutine of each target
  apc,         \* the goroutine of each assertion of each target
  target,      \* each target goroutine's copy of its target
  sem,         \* tokens in Run's sem channel
  errChan,     \* Run's errChan
  tsem,        \* tokens in each runTarget's sem channel
  results,     \* results of each runTarget
  got,         \* what the transport answered for each assertion
  allResults,  \* allResults of Run
  runResult,   \* the *RunResult Run returned (None = nil)
  runErr,      \* the error Run returned
  Output,      \* lines written to Runner.Output (a bag)
  conn,        \* the client of each target: "none", "open", "closed"
  connects,    \* NewClient calls per target
  closes,      \* client.Close calls per target
  failFast,    \* the --fail-fast flag of the run command
  op,          \* pure functions: the function applied ("" before)
  input,       \* pure functions: the input
  output       \* pure functions: the result

rvars == <<af, Workers, Parallel, Config, cancelled, unfetched, mpc, tpc, apc, target,
           sem, errChan, tsem, results, got, allResults, runResult, runErr,
           Output, conn, connects, closes>>
cvars == <<failFast>>
fvars == <<op, input, output>>
vars == <<rvars, cvars, cvars, fvars>>

T == 1..Len(af)
A(t) == 1..Len(af[t].Assertions)

FunIdle == op = "" /\ input = <<>> /\ output = <<>>
FlagsOff == failFast = FALSE

RunnerInit(files, ws, ps, cfgs) ==
  /\ af \in files
  /\ Workers \in ws
  /\ Parallel \in ps
  /\ Config \in cfgs
  /\ cancelled = FALSE
  /\ unfetched = {}
  /\ mpc = "idle"
  /\ tpc = [t \in T |-> "none"]
  /\ apc = [t \in T |-> [a \in A(t) |-> "none"]]
  /\ target = [t \in T |-> af[t]]
  /\ sem = 0
  /\ errChan = <<>>
  /\ tsem = [t \in T |-> 0]
  /\ results = [t \in T |-> <<>>]
  /\ got = [t \in T |-> [a \in A(t) |-> None]]
  /\ allResults = <<>>
  /\ runResult = None
  /\ runErr = ErrNil
  /\ Output = EmptyBag
  /\ conn = [t \in T |-> "none"]
  /\ connects = [t \in T |-> 0]
  /\ closes = [t \in T |-> 0]

Init ==
  /\ RunnerInit(Files, 0..MaxWorkers, 0..MaxParallel, {Some(RunConfig)})
  /\ FlagsOff
  /\ FunIdle


\* ------------------------------------------------------------ the actions
\* Run, lines 52-89: the loop starts one goroutine per target
Run ==
  /\ mpc = "idle"
  /\ mpc' = "wait"
  /\ tpc' = [t \in T |-> "start"]
  /\ UNCHANGED <<af, Workers, Parallel, Config, cancelled, unfetched, apc, target, sem,
                 errChan, tsem, results, got, allResults, runResult, runErr,
                 Output, conn, connects, closes, cvars, fvars>>

\* TargetAcquire with a sem of capacity workers + 1
TargetAcquireOffByOne(t) ==
  /\ tpc[t] = "start"
  /\ sem < max(Workers, 1) + 1
  /\ sem' = sem + 1
  /\ target' = [target EXCEPT ![t] = applyConfig(Config, af[t])]
  /\ connects' = [connects EXCEPT ![t] = @ + 1]
  /\ tpc' = [tpc EXCEPT ![t] = "connect"]
  /\ UNCHANGED <<af, Workers, Parallel, Config, cancelled, unfetched, mpc,
                 apc, errChan, tsem, results, got, allResults, runResult,
                 runErr, Output, conn, closes, cvars, fvars>>

\* target goroutine, lines 73-79: take a token of sem, merge the
\* credentials, enter runTarget and call NewClient
TargetAcquire(t) ==
  /\ tpc[t] = "start"
  /\ sem < max(Workers, 1)
  /\ sem' = sem + 1
  /\ target' = [target EXCEPT ![t] = applyConfig(Config, af[t])]
  /\ connects' = [connects EXCEPT ![t] = @ + 1]
  /\ tpc' = [tpc EXCEPT ![t] = "connect"]
  /\ UNCHANGED <<af, Workers, Parallel, Config, cancelled, unfetched, mpc, apc, errChan,
                 tsem, results, got, allResults, runResult, runErr, Output,
                 conn, closes, cvars, fvars>>

\* runTarget, lines 143-181: NewClient succeeded, the loop starts one
\* goroutine per assertion
ConnectOK(t) ==
  /\ tpc[t] = "connect"
  /\ conn' = [conn EXCEPT ![t] = "open"]
  /\ apc' = [apc EXCEPT ![t] = [a \in A(t) |-> "start"]]
  /\ tpc' = [tpc EXCEPT ![t] = "run"]
  /\ UNCHANGED <<af, Workers, Parallel, Config, cancelled, unfetched, mpc, target, sem,
                 errChan, tsem, results, got, allResults, runResult, runErr,
                 Output, connects, closes, cvars, fvars>>

\* ConnectFail without the deferred <-sem of line 72: the goroutine of a
\* target that failed to connect ends with its token still in sem
ConnectFailKeepsToken(t) ==
  /\ tpc[t] = "connect"
  /\ Len(errChan) < Len(af)
  /\ errChan' = Append(errChan,
                       <<"target", GetHost(target[t]), "connect", "dial">>)
  /\ tpc' = [tpc EXCEPT ![t] = "done"]
  /\ UNCHANGED <<af, Workers, Parallel, Config, cancelled, unfetched, mpc, apc, target,
                 sem, tsem, results, got, allResults, runResult, runErr, Output,
                 conn, connects, closes, cvars, fvars>>

\* runTarget, lines 150-152, and the target goroutine, lines 80-83:
\* NewClient failed, runTarget returns the error, the goroutine sends it on
\* errChan (capacity len(af.Targets)); then the deferred <-sem and wg.Done
ConnectFail(t) ==
  /\ tpc[t] = "connect"
  /\ Len(errChan) < Len(af)
  /\ errChan' = Append(errChan,
                       <<"target", GetHost(target[t]), "connect", "dial">>)
  /\ sem' = sem - 1
  /\ tpc' = [tpc EXCEPT ![t] = "done"]
  /\ UNCHANGED <<af, Workers, Parallel, Config, cancelled, unfetched, mpc, apc, target,
                 tsem, results, got, allResults, runResult, runErr, Output,
                 conn, connects, closes, cvars, fvars>>

\* AssertionAcquire with a sem of capacity parallel + 1
AssertionAcquireOffByOne(t, a) ==
  /\ apc[t][a] = "start"
  /\ tsem[t] < max(Parallel, 1) + 1
  /\ tsem' = [tsem EXCEPT ![t] = @ + 1]
  /\ apc' = [apc EXCEPT ![t][a] = "fetch"]
  /\ UNCHANGED <<af, Workers, Parallel, Config, cancelled, unfetched, mpc,
                 tpc, target, sem, errChan, results, got, allResults,
                 runResult, runErr, Output, conn, connects, closes, cvars, fvars>>

\* assertion goroutine, lines 169-172 and 188-191: take a token of the
\* target's sem and call client.Get
AssertionAcquire(t, a) ==
  /\ apc[t][a] = "start"
  /\ tsem[t] < max(Parallel, 1)
  /\ tsem' = [tsem EXCEPT ![t] = @ + 1]
  /\ apc' = [apc EXCEPT ![t][a] = "fetch"]
  /\ UNCHANGED <<af, Workers, Parallel, Config, cancelled, unfetched, mpc, tpc, target,
                 sem, errChan, results, got, allResults, runResult, runErr,
                 Output, conn, connects, closes, cvars, fvars>>

\* assertion goroutine, lines 172-180 and 191-199: client.Get returns, the
\* Result is built, stamped, appended under mu and printed; then the
\* deferred <-sem and wg.Done
AssertionReturn(t, a) ==
  /\ apc[t][a] = "fetch"
  /\ \E rpc \in RunnerRpcs(cancelled) :
       LET res == runAssertion(target[t], target[t].Assertions[a], rpc)
       IN /\ got' = [got EXCEPT ![t][a] = Some(rpc)]
          /\ results' = [results EXCEPT ![t] = Append(@, res)]
          /\ Output' = Output (+) SetToBag({<<printStatus(res),
                                             GetName(res.Assertion),
                                             res.Target>>})
  /\ tsem' = [tsem EXCEPT ![t] = @ - 1]
  /\ apc' = [apc EXCEPT ![t][a] = "done"]
  /\ UNCHANGED <<af, Workers, Parallel, Config, cancelled, unfetched, mpc, tpc, target,
                 sem, errChan, allResults, runResult, runErr, conn, connects,
                 closes, cvars, fvars>>

\* TargetFinish that stores its results instead of appending them
TargetFinishOverwrite(t) ==
  /\ tpc[t] = "run"
  /\ \A a \in A(t) : apc[t][a] = "done"
  /\ conn' = [conn EXCEPT ![t] = "closed"]
  /\ closes' = [closes EXCEPT ![t] = @ + 1]
  /\ allResults' = results[t]
  /\ sem' = sem - 1
  /\ tpc' = [tpc EXCEPT ![t] = "done"]
  /\ UNCHANGED <<af, Workers, Parallel, Config, cancelled, unfetched, mpc,
                 apc, target, errChan, tsem, results, got, runResult, runErr,
                 Output, connects, cvars, fvars>>

\* TargetFinish without wg.Wait: the client is closed while assertions run
TargetFinishNoWait(t) ==
  /\ tpc[t] = "run"
  /\ conn' = [conn EXCEPT ![t] = "closed"]
  /\ closes' = [closes EXCEPT ![t] = @ + 1]
  /\ allResults' = allResults \o results[t]
  /\ sem' = sem - 1
  /\ tpc' = [tpc EXCEPT ![t] = "done"]
  /\ UNCHANGED <<af, Workers, Parallel, Config, cancelled, unfetched, mpc,
                 apc, target, errChan, tsem, results, got, runResult, runErr,
                 Output, connects, cvars, fvars>>

\* runTarget, lines 183-184 and 153, and the target goroutine, lines
\* 85-87: wg.Wait returns, the deferred client.Close runs, runTarget returns
\* results and the goroutine appends them under mu; then the deferred <-sem
\* and wg.Done
TargetFinish(t) ==
  /\ tpc[t] = "run"
  /\ \A a \in A(t) : apc[t][a] = "done"
  /\ conn' = [conn EXCEPT ![t] = "closed"]
  /\ closes' = [closes EXCEPT ![t] = @ + 1]
  /\ allResults' = allResults \o results[t]
  /\ sem' = sem - 1
  /\ tpc' = [tpc EXCEPT ![t] = "done"]
  /\ UNCHANGED <<af, Workers, Parallel, Config, cancelled, unfetched, mpc, apc, target,
                 errChan, tsem, results, got, runResult, runErr, Output,
                 connects, cvars, fvars>>

\* RunReturn that takes the first error from errChan as soon as there is
\* one, without wg.Wait for the other targets
RunReturnNoWait ==
  /\ mpc = "wait"
  /\ errChan # <<>> \/ \A t \in T : tpc[t] = "done"
  /\ IF errChan # <<>>
       THEN /\ runErr' = Head(errChan)
            /\ runResult' = None
       ELSE /\ runErr' = ErrNil
            /\ runResult' = Some([Results |-> allResults] @@ Tally(allResults))
  /\ mpc' = "done"
  /\ UNCHANGED <<af, Workers, Parallel, Config, cancelled, unfetched, tpc, apc, target,
                 sem, errChan, tsem, results, got, allResults, Output, conn,
                 connects, closes, cvars, fvars>>

\* RunReturn that never looks at errChan
RunReturnSwallowsErr ==
  /\ mpc = "wait"
  /\ \A t \in T : tpc[t] = "done"
  /\ runErr' = ErrNil
  /\ runResult' = Some([Results |-> allResults] @@ Tally(allResults))
  /\ mpc' = "done"
  /\ UNCHANGED <<af, Workers, Parallel, Config, cancelled, unfetched, tpc,
                 apc, target, sem, errChan, tsem, results, got, allResults,
                 Output, conn, connects, closes, cvars, fvars>>

\* Run, lines 91-116: wg.Wait returns, errChan is closed and drained up to
\* its first error; without one the results are tallied
RunReturn ==
  /\ mpc = "wait"
  /\ \A t \in T : tpc[t] = "done"
  /\ IF errChan # <<>>
       THEN /\ runErr' = Head(errChan)
            /\ runResult' = None
       ELSE /\ runErr' = ErrNil
            /\ runResult' = Some([Results |-> allResults] @@ Tally(allResults))
  /\ mpc' = "done"
  /\ UNCHANGED <<af, Workers, Parallel, Config, cancelled, unfetched, tpc, apc, target,
                 sem, errChan, tsem, results, got, allResults, Output, conn,
                 connects, closes, cvars, fvars>>

\* the signal handler of runAssertions calls cancel() while Run is running
Cancel ==
  /\ mpc = "wait"
  /\ ~cancelled
  /\ cancelled' = TRUE
  /\ unfetched' = {<<t, a>> \in UNION {{t} \X A(t) : t \in T} :
                     apc[t][a] \in {"none", "start"}}
  /\ UNCHANGED <<af, Workers, Parallel, Config, mpc, tpc, apc, target, sem,
                 errChan, tsem, results, got, allResults, runResult, runErr,
                 Output, conn, connects, closes, cvars, fvars>>

Next ==
  \/ Run
  \/ \E t \in T : TargetAcquire(t)
  \/ \E t \in T : ConnectOK(t)
  \/ \E t \in T : ConnectFail(t)
  \/ \E t \in T : \E a \in A(t) : AssertionAcquire(t, a)
  \/ \E t \in T : \E a \in A(t) : AssertionReturn(t, a)
  \/ \E t \in T : TargetFinish(t)
  \/ RunReturn

Spec == Init /\ [][Next]_vars

\* Workers and Parallel of the runs checked for progress: both negative,
\* each zero beside the other at its largest, both at their largest
LiveSettings ==
  {<<0 - 1, 0 - 1>>, <<0, MaxParallel>>, <<MaxWorkers, 0>>,
   <<MaxWorkers, MaxParallel>>}

\* the run with progress: a goroutine that can take a step is scheduled, a
\* connect and a fetch that were started return.  The assumption made is
\* the weakest of this kind, that the run does not stop while some step can
\* be taken.
InitLive ==
  /\ RunnerInit(Files, (0 - 1)..MaxWorkers, (0 - 1)..MaxParallel,
                {Some(RunConfig)})
  /\ <<Workers, Parallel>> \in LiveSettings
  /\ FlagsOff
  /\ FunIdle

SpecLive == InitLive /\ [][Next]_vars /\ WF_vars(Next)

\* the same run with an operator interrupt
NextCancel == Next \/ Cancel

SpecCancel == Init /\ [][NextCancel]_vars


\* --------------------------------------------- applyConfig on its own
UserNames == {"", "admin"}
Passwords == {"", "secret"}

\* a target as the assertion file declares it: every credential key may be
\* left out (None) or given
TargetDecls ==
  [host : {HostName(1)},
   username : {None} \cup {Some(u) : u \in UserNames},
   password : {None} \cup {Some(w) : w \in Passwords},
   insecure : {None, Some(FALSE), Some(TRUE)},
   assertions : {<<>>}]

ConfigTargets ==
  [Username : {"", "h1user"}, Password : {"", "h1pass"},
   Insecure : {None, Some(FALSE), Some(TRUE)}]

Configs ==
  {[Defaults |-> d, Targets |-> m] :
     d \in [Username : {"", "cfguser"}, Password : {"", "cfgpass"},
            Insecure : BOOLEAN],
     m \in {<<>>} \cup [{HostName(1)} -> ConfigTargets]}

RunnerIdle == RunnerInit({<<>>}, {1}, {1}, {None}) /\ FlagsOff

InitApplyConfig ==
  /\ RunnerIdle
  /\ op = ""
  /\ input \in [decl : TargetDecls, config : {None} \cup {Some(c) : c \in Configs}]
  /\ output = <<>>

\* Parse decodes the target, the target goroutine of Run merges the
\* credentials (line 77)
ApplyConfig ==
  /\ op = ""
  /\ op' = "applyConfig"
  /\ output' = applyConfig(input.config, DecodeTarget(input.decl))
  /\ UNCHANGED <<rvars, cvars, input>>

NextApplyConfig == ApplyConfig

SpecApplyConfig == InitApplyConfig /\ [][NextApplyConfig]_vars


\* ------------------------------------------------- Validate on its own
\* the values a device reports
ValidateValues ==
  {<<>>, StrUP, Str("U"), Str("P"), <<"1", ".", "2", ".", "3">>,
   Str("0"), Str("3"), Str("5"), Str("7"), <<"5", ".", "0">>,
   <<"-", "2", ".", "5">>, <<"-", "3">>}

\* a threshold that is no number
TextAbc == <<"a", "b", "c">>

\* the assertions of a file: every predicate field left out or given, the
\* two flags also given as false
ValidateAssertions ==
  [Name : {""}, Path : {"/p"},
   Equals : {None, Some(StrUP)},
   Contains : {None, Some(Str("P"))},
   Matches : {None, Some(<<"^", "U">>), Some(Str("("))},
   Exists : {None, Some(FALSE), Some(TRUE)},
   Absent : {None, Some(FALSE), Some(TRUE)},
   GT : {None, Some(Str("5")), Some(<<"-", "2", ".", "5">>), Some(TextAbc)},
   LT : {None, Some(Str("5")), Some(TextAbc)},
   GTE : {None, Some(Str("5")), Some(TextAbc)},
   LTE : {None, Some(<<"-", "2", ".", "5">>), Some(TextAbc)}]

\* what the device answers to the Get of runAssertion
ValidateRpcs ==
  {RpcUpdate(v) : v \in ValidateValues} \cup
  {RpcEmpty, RpcError(TextNotFound), RpcError(TextNotFoundLower),
   RpcError(TextUnavailable \o Str(" ") \o TextNotFound),
   RpcError(TextUnavailable)}

InitValidate ==
  /\ RunnerIdle
  /\ op = ""
  /\ input \in [a : ValidateAssertions, value : ValidateValues, exists : BOOLEAN]
               \cup [a : ValidateAssertions, rpc : ValidateRpcs]
  /\ output = <<>>

\* a direct call of Validate
ApplyValidate ==
  /\ op = ""
  /\ "value" \in DOMAIN input
  /\ op' = "Validate"
  /\ output' = Validate(input.a, input.value, input.exists)
  /\ UNCHANGED <<rvars, cvars, input>>

\* the runner's call: Validate on what Get returned, or the error Result
ApplyRunAssertion ==
  /\ op = ""
  /\ "rpc" \in DOMAIN input
  /\ op' = "runAssertion"
  /\ output' = runAssertion(FileTarget(1, 0), input.a, input.rpc)
  /\ UNCHANGED <<rvars, cvars, input>>

NextValidate == ApplyValidate \/ ApplyRunAssertion

SpecValidate == InitValidate /\ [][NextValidate]_vars

\* ------------------------------------------------- gnmiclient.splitPath
RECURSIVE splitPathLoopNoDepth(_, _, _, _, _)
\* the loop of splitPath with the depth test of the '/' case dropped: every
\* '/' ends the segment
splitPathLoopNoDepth(path, i, segments, current, depth) ==
  IF i > Len(path)
    THEN IF Len(current) > 0 THEN Append(segments, current) ELSE segments
  ELSE IF path[i] = "["
    THEN splitPathLoopNoDepth(path, i + 1, segments, Append(current, path[i]),
                              depth + 1)
  ELSE IF path[i] = "]"
    THEN splitPathLoopNoDepth(path, i + 1, segments, Append(current, path[i]),
                              depth - 1)
  ELSE IF path[i] = "/"
    THEN IF Len(current) > 0
           THEN splitPathLoopNoDepth(path, i + 1, Append(segments, current),
                                     <<>>, depth)
           ELSE splitPathLoopNoDepth(path, i + 1, segments, current, depth)
  ELSE splitPathLoopNoDepth(path, i + 1, segments, Append(current, path[i]),
                            depth)

RECURSIVE splitPathLoop(_, _, _, _, _)
\* splitPath, lines 310-334: the loop over the runes of path from the i-th
\* on, and the closing append
splitPathLoop(path, i, segments, current, depth) ==
  IF i > Len(path)
    THEN IF Len(current) > 0 THEN Append(segments, current) ELSE segments
  ELSE IF path[i] = "["
    THEN splitPathLoop(path, i + 1, segments, Append(current, path[i]), depth + 1)
  ELSE IF path[i] = "]"
    THEN splitPathLoop(path, i + 1, segments, Append(current, path[i]), depth - 1)
  ELSE IF path[i] = "/"
    THEN IF depth = 0
           THEN IF Len(current) > 0
                  THEN splitPathLoop(path, i + 1, Append(segments, current),
                                     <<>>, depth)
                  ELSE splitPathLoop(path, i + 1, segments, current, depth)
           ELSE splitPathLoop(path, i + 1, segments, Append(current, path[i]),
                              depth)
  ELSE splitPathLoop(path, i + 1, segments, Append(current, path[i]), depth)

\* splitPath; a nil slice is the empty sequence
splitPath(path) == splitPathLoop(path, 1, <<>>, <<>>, 0)

\* the paths: every string of up to MaxPathLen runes of the alphabet
PathAlphabet == {"a", "/", "[", "]"}

Paths == UNION {[1..n -> PathAlphabet] : n \in 0..MaxPathLen}

InitSplitPath ==
  /\ RunnerIdle
  /\ op = ""
  /\ input \in Paths
  /\ output = <<>>

SplitPath ==
  /\ op = ""
  /\ op' = "splitPath"
  /\ output' = splitPath(input)
  /\ UNCHANGED <<rvars, cvars, input>>

NextSplitPath == SplitPath

SpecSplitPath == InitSplitPath /\ [][NextSplitPath]_vars

\* ------------------------------------- gnmiclient.parsePathElem, parsePath
\* strings.Index(s, c) for a one-rune c, counted from 1: 0 when c is not in s
Index(s, c) ==
  IF \E i \in 1..Len(s) : s[i] = c
    THEN CHOOSE i \in 1..Len(s) : s[i] = c /\ \A j \in 1..(i - 1) : s[j] # c
    ELSE 0

\* elem.Key[key] = value on a Go map
MapPut(m, key, value) ==
  [k \in DOMAIN m \cup {key} |-> IF k = key THEN value ELSE m[k]]

\* make(map[string]string)
EmptyMap == [k \in {} |-> <<>>]

RECURSIVE parseKeys(_, _)
\* parsePathElem, lines 356-376: the loop over keysPart
parseKeys(keysPart, elem) ==
  IF Len(keysPart) = 0 \/ keysPart[1] # "["
    THEN [elem |-> Some(elem), err |-> ErrNil]
  ELSE LET end == Index(keysPart, "]")
           kv == SubSeq(keysPart, 2, end - 1)
           eqIdx == Index(kv, "=")
       IN IF end = 0
            THEN [elem |-> None, err |-> <<"unclosed bracket in path segment">>]
          ELSE IF eqIdx = 0
            THEN [elem |-> None, err |-> <<"invalid key-value pair">>]
          ELSE parseKeys(SubSeq(keysPart, end + 1, Len(keysPart)),
                         [elem EXCEPT !.Key =
                            MapPut(@, SubSeq(kv, 1, eqIdx - 1),
                                   SubSeq(kv, eqIdx + 1, Len(kv)))])

\* parsePathElem: the element (None = nil) and the error
parsePathElem(segment) ==
  LET bracketStart == Index(segment, "[")
  IN IF bracketStart = 0
       THEN [elem |-> Some([Name |-> segment, Key |-> EmptyMap]), err |-> ErrNil]
       ELSE parseKeys(SubSeq(segment, bracketStart, Len(segment)),
                      [Name |-> SubSeq(segment, 1, bracketStart - 1),
                       Key |-> EmptyMap])

RECURSIVE parseElems(_, _)
\* parsePath, lines 293-300: the loop over the segments
parseElems(segments, elems) ==
  IF segments = <<>> THEN [path |-> Some(elems), err |-> ErrNil]
  ELSE LET r == parsePathElem(Head(segments))
       IN IF r.err # ErrNil THEN [path |-> None, err |-> r.err]
          ELSE parseElems(Tail(segments), Append(elems, r.elem[1]))

\* parsePath: the gNMI path (None = nil) and the error
parsePath(path) ==
  LET trimmed == IF Len(path) > 0 /\ path[1] = "/"
                   THEN SubSeq(path, 2, Len(path)) ELSE path
  IN parseElems(splitPath(trimmed), <<>>)

\* (*Client).Get: the path is parsed before the request is sent
Get(path, rpc) ==
  LET parsed == parsePath(path)
  IN IF parsed.err # ErrNil
       THEN [value |-> <<>>, exists |-> FALSE,
             err |-> <<"parse path">> \o parsed.err]
       ELSE ClientGet(rpc)

\* the segments and paths: every string of up to MaxSegmentLen (MaxPathLen)
\* runes of the alphabet
ElemAlphabet == {"a", "[", "]", "="}

Segments == UNION {[1..n -> ElemAlphabet] : n \in 0..MaxSegmentLen}

KeyedPaths == UNION {[1..n -> ElemAlphabet \cup {"/"}] : n \in 0..MaxPathLen}

InitParsePath ==
  /\ RunnerIdle
  /\ op = ""
  /\ input \in [segment : Segments] \cup [path : KeyedPaths]
  /\ output = <<>>

ParsePathElem ==
  /\ op = ""
  /\ "segment" \in DOMAIN input
  /\ op' = "parsePathElem"
  /\ output' = parsePathElem(input.segment)
  /\ UNCHANGED <<rvars, cvars, input>>

\* Get on a device that has the path: what it returns shows whether the
\* path was sent
ParsePath ==
  /\ op = ""
  /\ "path" \in DOMAIN input
  /\ op' = "parsePath"
  /\ output' = [parsed |-> parsePath(input.path),
                got |-> Get(input.path, RpcUpdate(StrUP))]
  /\ UNCHANGED <<rvars, cvars, input>>

NextParsePath == ParsePathElem \/ ParsePath

SpecParsePath == InitParsePath /\ [][NextParsePath]_vars

\* ------------------------------------------ assertion.ExpandPath, CompactPath
\* the texts of pathPrefixes and CompactPath, rune by rune
TextBgp ==
  <<"b", "g", "p", "[">>

TextOspf ==
  <<"o", "s", "p", "f", "[">>

TextIsis ==
  <<"i", "s", "i", "s", "[">>

TextInterface ==
  <<"i", "n", "t", "e", "r", "f", "a", "c", "e", "[">>

TextLldp ==
  <<"l", "l", "d", "p", "/">>

TextSystem ==
  <<"s", "y", "s", "t", "e", "m", "/">>

TextNetworkInstance ==
  <<"n", "e", "t", "w", "o", "r", "k", "-", "i", "n", "s", "t", "a", "n",
    "c", "e", "[">>

TextGroupEnd ==
  <<"]", "/">>

TextNiHead ==
  <<"/", "n", "e", "t", "w", "o", "r", "k", "-", "i", "n", "s", "t", "a",
    "n", "c", "e", "s", "/", "n", "e", "t", "w", "o", "r", "k", "-", "i",
    "n", "s", "t", "a", "n", "c", "e", "[", "n", "a", "m", "e", "=">>

TextIfHead ==
  <<"/", "i", "n", "t", "e", "r", "f", "a", "c", "e", "s", "/", "i", "n",
    "t", "e", "r", "f", "a", "c", "e", "[", "n", "a", "m", "e", "=">>

TextBgpMid ==
  <<"]", "/", "p", "r", "o", "t", "o", "c", "o", "l", "s", "/", "p", "r",
    "o", "t", "o", "c", "o", "l", "[", "i", "d", "e", "n", "t", "i", "f",
    "i", "e", "r", "=", "B", "G", "P", "]", "[", "n", "a", "m", "e", "=",
    "B", "G", "P", "]", "/", "b", "g", "p", "/">>

TextOspfMid ==
  <<"]", "/", "p", "r", "o", "t", "o", "c", "o", "l", "s", "/", "p", "r",
    "o", "t", "o", "c", "o", "l", "[", "i", "d", "e", "n", "t", "i", "f",
    "i", "e", "r", "=", "O", "S", "P", "F", "]", "[", "n", "a", "m", "e",
    "=", "O", "S", "P", "F", "]", "/", "o", "s", "p", "f", "/">>

TextIsisMid ==
  <<"]", "/", "p", "r", "o", "t", "o", "c", "o", "l", "s", "/", "p", "r",
    "o", "t", "o", "c", "o", "l", "[", "i", "d", "e", "n", "t", "i", "f",
    "i", "e", "r", "=", "I", "S", "I", "S", "]", "[", "n", "a", "m", "e",
    "=", "I", "S", "I", "S", "]", "/", "i", "s", "i", "s", "/">>

TextInstance ==
  <<"{", "i", "n", "s", "t", "a", "n", "c", "e", "}">>

TextRest ==
  <<"{", "r", "e", "s", "t", "}">>

TextBgpProtocol ==
  <<"p", "r", "o", "t", "o", "c", "o", "l", "s", "/", "p", "r", "o", "t",
    "o", "c", "o", "l", "[", "i", "d", "e", "n", "t", "i", "f", "i", "e",
    "r", "=", "B", "G", "P", "]", "[", "n", "a", "m", "e", "=", "B", "G",
    "P", "]", "/", "b", "g", "p", "/">>

\* strings.HasPrefix(s, pre)
HasPrefix(s, pre) == Len(s) >= Len(pre) /\ SubSeq(s, 1, Len(pre)) = pre

\* strings.Replace(s, old, new, 1): the first occurrence of old is replaced
ReplaceFirst(s, old, new) ==
  IF Contains(s, old)
    THEN LET i == CHOOSE k \in 0..(Len(s) - Len(old)) :
                    /\ SubSeq(s, k + 1, k + Len(old)) = old
                    /\ \A m \in 0..(k - 1) : SubSeq(s, m + 1, m + Len(old)) # old
         IN SubSeq(s, 1, i) \o new \o SubSeq(s, i + Len(old) + 1, Len(s))
    ELSE s

\* Regex.FindStringSubmatch for ^pre([^\]]+)mid(.*)$ where mid starts with
\* ']': the instance ends at the first ']' after pre, is not empty and is
\* followed by mid; None when there is no match, else the two captures.
\* (The texts of the model hold no newline, which '.' would not match.)
FindKeyed(path, pre, mid) ==
  LET after == SubSeq(path, Len(pre) + 1, Len(path))
      close == Index(after, "]")
      tail == SubSeq(after, close, Len(after))
  IN IF HasPrefix(path, pre) /\ close > 1 /\ HasPrefix(tail, mid)
       THEN Some([instance |-> SubSeq(after, 1, close - 1),
                  rest |-> SubSeq(tail, Len(mid) + 1, Len(tail))])
       ELSE None

\* Regex.FindStringSubmatch for ^pre(.*)$: the one capture
FindPlain(path, pre) ==
  IF HasPrefix(path, pre)
    THEN Some([instance |-> SubSeq(path, Len(pre) + 1, Len(path))])
    ELSE None

\* pathPrefixes, in table order: Pattern, whether the Regex has the
\* instance and rest captures or the one capture, and Template
pathPrefixes ==
  <<[Pattern |-> TextBgp, keyed |-> TRUE,
     Template |-> TextNiHead \o TextInstance \o TextBgpMid \o TextRest],
    [Pattern |-> TextOspf, keyed |-> TRUE,
     Template |-> TextNiHead \o TextInstance \o TextOspfMid \o TextRest],
    [Pattern |-> TextIsis, keyed |-> TRUE,
     Template |-> TextNiHead \o TextInstance \o TextIsisMid \o TextRest],
    [Pattern |-> TextInterface, keyed |-> TRUE,
     Template |-> TextIfHead \o TextInstance \o TextGroupEnd \o TextRest],
    [Pattern |-> TextLldp, keyed |-> FALSE,
     Template |-> <<"/">> \o TextLldp \o TextInstance],
    [Pattern |-> TextSystem, keyed |-> FALSE,
     Template |-> <<"/">> \o TextSystem \o TextInstance],
    [Pattern |-> TextNetworkInstance, keyed |-> TRUE,
     Template |-> TextNiHead \o TextInstance \o TextGroupEnd \o TextRest]>>

\* prefix.Regex.FindStringSubmatch(path)
FindStringSubmatch(prefix, path) ==
  IF prefix.keyed THEN FindKeyed(path, prefix.Pattern, TextGroupEnd)
  ELSE FindPlain(path, prefix.Pattern)

\* ExpandPath, lines 74-86: the Template with the captures put in
Substitute(prefix, m) ==
  LET withInstance == ReplaceFirst(prefix.Template, TextInstance, m.instance)
  IN IF prefix.keyed THEN ReplaceFirst(withInstance, TextRest, m.rest)
     ELSE ReplaceFirst(withInstance, TextRest, <<>>)

RECURSIVE ExpandFrom(_, _)
\* ExpandPath, lines 71-90: the loop over pathPrefixes from entry i on
ExpandFrom(path, i) ==
  IF i > Len(pathPrefixes) THEN <<"/">> \o path
  ELSE LET prefix == pathPrefixes[i]
           matches == FindStringSubmatch(prefix, path)
       IN IF HasPrefix(path, prefix.Pattern) /\ matches # None
            THEN Substitute(prefix, matches[1])
            ELSE ExpandFrom(path, i + 1)

\* ExpandPath without the pass-through of absolute paths (lines 66-68)
ExpandPathNoAbsolute(path) == ExpandFrom(path, 1)

\* ExpandPath
ExpandPath(path) ==
  IF HasPrefix(path, <<"/">>) THEN path ELSE ExpandFrom(path, 1)

\* one rule of CompactPath: the short form for a path matching
\* ^head([^\]]+)mid(.*)$, None when it does not match
CompactRule(path, head, mid, short) ==
  LET m == FindKeyed(path, head, mid)
  IN IF m = None THEN None
     ELSE Some(short \o m[1].instance \o TextGroupEnd \o m[1].rest)

\* CompactPath
CompactPath(path) ==
  LET bgp == CompactRule(path, TextNiHead, TextBgpMid, TextBgp)
      ospf == CompactRule(path, TextNiHead, TextOspfMid, TextOspf)
      isis == CompactRule(path, TextNiHead, TextIsisMid, TextIsis)
      iface == CompactRule(path, TextIfHead, TextGroupEnd, TextInterface)
      ni == CompactRule(path, TextNiHead, TextGroupEnd, TextNetworkInstance)
  IN IF bgp # None THEN bgp[1]
     ELSE IF ospf # None THEN ospf[1]
     ELSE IF isis # None THEN isis[1]
     ELSE IF iface # None THEN iface[1]
     ELSE IF HasPrefix(path, <<"/">> \o TextLldp)
       THEN TextLldp \o SubSeq(path, Len(TextLldp) + 2, Len(path))
     ELSE IF HasPrefix(path, <<"/">> \o TextSystem)
       THEN TextSystem \o SubSeq(path, Len(TextSystem) + 2, Len(path))
     ELSE IF ni # None THEN ni[1]
     ELSE path

\* the paths of assertion files: a head (nothing, '/', a Pattern of the
\* table, a Pattern cut short) followed by up to MaxTailLen pieces
PathHeads ==
  {<<>>, <<"/">>, TextBgp, TextOspf, TextIsis, TextInterface, TextLldp,
   TextSystem, TextNetworkInstance, SubSeq(TextBgp, 1, 3),
   SubSeq(TextLldp, 1, 4)}

PathPieces == {<<"a">>, <<"/">>, <<"[">>, <<"]">>, TextRest, TextBgpProtocol}

RECURSIVE Flatten(_)
Flatten(ss) == IF ss = <<>> THEN <<>> ELSE Head(ss) \o Flatten(Tail(ss))

AssertionPaths ==
  {h \o Flatten(t) : h \in PathHeads,
                     t \in UNION {[1..n -> PathPieces] : n \in 0..MaxTailLen}}

InitExpandPath ==
  /\ RunnerIdle
  /\ op = ""
  /\ input \in AssertionPaths
  /\ output = <<>>

\* Parse expands the path of an assertion (types.go, line 180); the
\* generators compact an expanded path, and a file written from it is
\* loaded again
ExpandAndCompact ==
  /\ op = ""
  /\ op' = "ExpandPath"
  /\ LET p == ExpandPath(input)
     IN output' = [expanded |-> p,
                   compacted |-> CompactPath(p),
                   reexpanded |-> ExpandPath(CompactPath(p)),
                   twice |-> ExpandPath(p)]
  /\ UNCHANGED <<rvars, cvars, input>>

NextExpandPath == ExpandAndCompact

SpecExpandPath == InitExpandPath /\ [][NextExpandPath]_vars

\* ------------------------------------------------ the run command's report
OutputFormats == {"text", "json"}

\* a Result of each verdict, as runAssertion leaves it
VerdictResult(k) ==
  CASE k = "pass"  -> [NewResult(PoolAssertion(1), StrUP) EXCEPT
                         !.Target = HostName(1), !.Passed = TRUE]
    [] k = "fail"  -> [NewResult(PoolAssertion(2), Str("3")) EXCEPT
                         !.Target = HostName(1)]
    [] k = "error" -> [NewResult(PoolAssertion(1), <<>>) EXCEPT
                         !.Target = HostName(1),
                         !.Error = <<"get">> \o TextUnavailable]

\* what r.Run hands back to runAssertions: the first connection error, or
\* the tallied results of up to MaxReportResults assertions
RunReturns ==
  {[result |-> None, err |-> <<"connect">>]} \cup
  {[result |-> Some([Results |-> rs] @@ Tally(rs)), err |-> ErrNil] :
     rs \in UNION {[1..n -> {VerdictResult(k) : k \in {"pass", "fail", "error"}}] :
                     n \in 0..MaxReportResults}}

\* the JSONResult outputJSON builds for one Result (lines 592-614)
JSONResult(res) ==
  [Target |-> res.Target, Name |-> GetName(res.Assertion),
   Path |-> res.Assertion.Path,
   Status |-> IF res.Error # ErrNil THEN "error"
              ELSE IF res.Passed THEN "pass" ELSE "fail",
   Expected |-> IF res.Assertion.Equals # None THEN res.Assertion.Equals[1]
                ELSE <<>>,
   Actual |-> res.ActualValue, Error |-> res.Error]

\* outputJSON with Success and the exit status taken from Failed alone
outputJSONFailedOnly(result) ==
  [exit |-> IF result.Failed > 0 THEN 1 ELSE 0,
   text |-> None,
   json |-> Some([Summary |-> [Total |-> result.TotalAssertions,
                               Passed |-> result.Passed,
                               Failed |-> result.Failed,
                               Errors |-> result.Errors,
                               Success |-> result.Failed = 0],
                  Results |-> [i \in 1..Len(result.Results) |->
                                 JSONResult(result.Results[i])]])]

\* outputJSON: the document written to stdout and the exit status of the
\* process (os.Exit(1), or 0 after the nil return)
outputJSON(result) ==
  [exit |-> IF result.Failed > 0 \/ result.Errors > 0 THEN 1 ELSE 0,
   text |-> None,
   json |-> Some([Summary |-> [Total |-> result.TotalAssertions,
                               Passed |-> result.Passed,
                               Failed |-> result.Failed,
                               Errors |-> result.Errors,
                               Success |-> result.Failed = 0 /\ result.Errors = 0],
                  Results |-> [i \in 1..Len(result.Results) |->
                                 JSONResult(result.Results[i])]])]

\* runAssertions from the return of r.Run on (lines 242-265) and main's
\* os.Exit(1) on a returned error: the exit status and what was written to
\* stdout.  The "Errors:" line of the text summary is printed only for a
\* positive count.
runAssertions(ret, format) ==
  IF ret.err # ErrNil THEN [exit |-> 1, text |-> None, json |-> None]
  ELSE IF format = "json" THEN outputJSON(ret.result[1])
  ELSE LET result == ret.result[1]
       IN [exit |-> IF result.Failed > 0 \/ result.Errors > 0 THEN 1 ELSE 0,
           text |-> Some([Total |-> result.TotalAssertions,
                          Passed |-> result.Passed,
                          Failed |-> result.Failed,
                          Errors |-> IF result.Errors > 0
                                       THEN Some(result.Errors) ELSE None]),
           json |-> None]

InitReport ==
  /\ RunnerIdle
  /\ op = ""
  /\ input \in [ret : RunReturns, format : OutputFormats]
  /\ output = <<>>

Report ==
  /\ op = ""
  /\ op' = "runAssertions"
  /\ output' = runAssertions(input.ret, input.format)
  /\ UNCHANGED <<rvars, cvars, input>>

NextReport == Report

SpecReport == InitReport /\ [][NextReport]_vars

\* --------------------------------------------- the run with --fail-fast
\* runCmd binds the flag and passes it to runAssertions, which starts the
\* same Runner.Run whatever its value
InitFailFast ==
  /\ RunnerInit(Files, 0..MaxWorkers, 0..MaxParallel, {Some(RunConfig)})
  /\ failFast \in BOOLEAN
  /\ FunIdle

SpecFailFast == InitFailFast /\ [][Next]_vars


\* ================================================================ claims
Pairs == UNION {{t} \X A(t) : t \in T}

\* the fetches of target t that are in flight (client.Get called, not
\* returned)
InFlight(t) == Cardinality({a \in A(t) : apc[t][a] = "fetch"})

\* the targets being processed: connecting, or connected and not yet closed
Processing == {t \in T : tpc[t] \in {"connect", "run"}}

\* the places of the Results of assertion a of target t in rs
ResultsOf(t, a, rs) ==
  {i \in 1..Len(rs) : /\ rs[i].Target = GetHost(af[t])
                      /\ rs[i].Assertion = af[t].Assertions[a]}

ConnectFailed(t) == tpc[t] = "done" /\ conn[t] = "none"

\* the Result assertion a of target t must get for what its fetch returned
Expected(t, a) ==
  runAssertion(applyConfig(Config, af[t]), af[t].Assertions[a], got[t][a][1])

\* C1: in runTarget at most k = Parallel fetches of one target are in flight
\* at any time (1 when Parallel is below 1), and a runTarget that has
\* returned holds exactly one Result per assertion of its target.
C1_ParallelLimit ==
  \A t \in T :
    /\ InFlight(t) <= (IF Parallel >= 1 THEN Parallel ELSE 1)
    /\ (tpc[t] = "done" /\ conn[t] = "closed") =>
         /\ Len(results[t]) = Len(af[t].Assertions)
         /\ \A a \in A(t) : Cardinality(ResultsOf(t, a, results[t])) = 1

\* C1 witness: a target with N = 2 assertions and Parallel = 1 < N has
\* returned from runTarget with its 2 Results.
C1_Witness ==
  \E t \in T : /\ Parallel = 1
               /\ Len(af[t].Assertions) = 2
               /\ tpc[t] = "done"
               /\ Len(results[t]) = 2

\* C2: at most Workers targets are being processed at any time (1 when
\* Workers is below 1), no target is processed twice, and when Run returns
\* every target of the file has been processed exactly once.
C2_WorkersLimit ==
  /\ Cardinality(Processing) <= (IF Workers >= 1 THEN Workers ELSE 1)
  /\ \A t \in T : connects[t] <= 1
  /\ mpc = "done" => \A t \in T : tpc[t] = "done" /\ connects[t] = 1

\* C2 witness: Workers = 1 and two targets; target 2 is being processed
\* while target 1 still waits for the semaphore.
C2_Witness ==
  /\ Workers = 1
  /\ Len(af) = 2
  /\ tpc[1] = "start"
  /\ tpc[2] = "run"

\* C3: the RunResult is a function of the file and of the connect and fetch
\* outcomes alone: none when a connect failed, else the counts and the
\* Results are those of the Expected Result of every assertion, whatever the
\* order of completion.
C3_OrderIndependent ==
  mpc = "done" =>
    IF \E t \in T : ConnectFailed(t)
      THEN runResult = None
      ELSE /\ runResult # None
           /\ LET R == runResult[1]
                  Exp(st) == {p \in Pairs : printStatus(Expected(p[1], p[2])) = st}
              IN /\ R.TotalAssertions = Cardinality(Pairs)
                 /\ R.Passed = Cardinality(Exp("PASS"))
                 /\ R.Failed = Cardinality(Exp("FAIL"))
                 /\ R.Errors = Cardinality(Exp("ERROR"))
                 /\ Len(R.Results) = Cardinality(Pairs)
                 /\ \A p \in Pairs :
                      \E i \in 1..Len(R.Results) :
                        R.Results[i] = Expected(p[1], p[2])

\* C3 witness: Run returned a RunResult whose first Result is of the second
\* target (the targets completed in the reverse of the file's order).
C3_Witness ==
  /\ mpc = "done"
  /\ runResult # None
  /\ Len(af) = 2
  /\ Len(runResult[1].Results) = 2
  /\ runResult[1].Results[1].Target = GetHost(af[2])
  /\ runResult[1].Results[2].Target = GetHost(af[1])

\* C4: a returned RunResult has TotalAssertions = len(Results) = Passed +
\* Failed + Errors; Errors counts the Results with an error, Passed those
\* without error and with Passed set, Failed all the others.
C4_TallyConsistent ==
  (mpc = "done" /\ runResult # None) =>
    LET R == runResult[1]
        I == 1..Len(R.Results)
        errored == {i \in I : R.Results[i].Error # ErrNil}
        passed == {i \in I : R.Results[i].Error = ErrNil /\ R.Results[i].Passed}
    IN /\ R.TotalAssertions = Len(R.Results)
       /\ R.TotalAssertions = R.Passed + R.Failed + R.Errors
       /\ R.Errors = Cardinality(errored)
       /\ R.Passed = Cardinality(passed)
       /\ R.Failed = Cardinality(I \ (errored \cup passed))

\* C4 witness: a returned RunResult with an errored and a passed Result.
C4_Witness ==
  /\ mpc = "done"
  /\ runResult # None
  /\ runResult[1].Errors = 1
  /\ runResult[1].Passed = 1

\* C5: when the connect of at least one target failed, Run returns no
\* RunResult and an error that names a target whose connect failed.
C5_ConnectFailureFatal ==
  (mpc = "done" /\ \E t \in T : ConnectFailed(t)) =>
    /\ runResult = None
    /\ \E t \in T : /\ ConnectFailed(t)
                    /\ runErr = <<"target", GetHost(af[t]), "connect", "dial">>

\* C5 witness: Run returned an error although another target evaluated an
\* assertion that passed.
C5_Witness ==
  /\ mpc = "done"
  /\ runErr # ErrNil
  /\ \E t \in T : \E i \in 1..Len(results[t]) :
       results[t][i].Error = ErrNil /\ results[t][i].Passed

\* C6: when every target connected, Run returns no error whatever the
\* fetches returned; an assertion whose fetch failed has exactly one Result,
\* with the fetch error, and every assertion whose fetch returned a value
\* has exactly one Result, the verdict of Validate on that value.
C6_FetchFailureLocal ==
  (mpc = "done" /\ \A t \in T : ~ConnectFailed(t)) =>
    /\ runErr = ErrNil
    /\ runResult # None
    /\ \A p \in Pairs :
         LET t == p[1]
             a == p[2]
             rpc == got[t][a][1]
             rs == runResult[1].Results
             I == ResultsOf(t, a, rs)
         IN /\ Cardinality(I) = 1
            /\ \A i \in I :
                 /\ (/\ rpc.kind = "error"
                     /\ ~Contains(rpc.text, TextNotFound)
                     /\ ~Contains(rpc.text, TextNotFoundLower)) =>
                      /\ rs[i].Error = <<"get">> \o rpc.text
                      /\ ~rs[i].Passed
                 /\ rpc.kind = "update" =>
                      rs[i] = [Validate(af[t].Assertions[a], rpc.val, TRUE)
                                 EXCEPT !.Target = GetHost(af[t])]

\* C6 witness: Run returned without error; one fetch of a target failed and
\* the other assertion of the same target passed.
C6_Witness ==
  /\ mpc = "done"
  /\ runErr = ErrNil
  /\ \E t \in T :
       /\ Len(results[t]) = 2
       /\ \E i, j \in 1..2 :
            /\ results[t][i].Error # ErrNil
            /\ results[t][i].Error[1] = "get"
            /\ results[t][j].Error = ErrNil
            /\ results[t][j].Passed

\* C7: once the context is cancelled no target goroutine starts its connect
\* and no assertion goroutine starts its fetch.
C7_NoNewWorkAfterCancel ==
  [][cancelled =>
       \A t \in T :
         /\ tpc[t] = "start" => tpc'[t] = "start"
         /\ \A a \in A(t) : apc[t][a] = "start" => apc'[t][a] = "start"]_vars

\* C8: when the context was cancelled while fetches had not begun, a
\* returned RunResult holds fewer Results than the file has assertions.
C8_CancelStrictSubset ==
  (mpc = "done" /\ unfetched # {} /\ runResult # None) =>
    runResult[1].TotalAssertions < Cardinality(Pairs)

\* C9: the connection of a target is closed at most once, it is closed only
\* when every assertion of the target has finished, and a target that has
\* connected and finished has closed it, whatever its fetches returned; no
\* connection is open when Run returns.
C9_CloseOnceAfterAll ==
  \A t \in T :
    /\ closes[t] <= 1
    /\ conn[t] = "open" => closes[t] = 0
    /\ conn[t] = "closed" =>
         /\ closes[t] = 1
         /\ \A a \in A(t) : apc[t][a] = "done"
    /\ (tpc[t] = "done" \/ mpc = "done") => conn[t] # "open"

\* C9 witness: a connection was closed after both fetches of its target
\* returned errors.
C9_Witness ==
  \E t \in T :
    /\ conn[t] = "closed"
    /\ Len(results[t]) = 2
    /\ \A i \in 1..2 : results[t][i].Error # ErrNil

\* C10: in the merged target a credential the assertion file declares wins
\* (a non-empty Username or Password, a declared Insecure flag) and the
\* value of GetCredentials is used only for a field the file left empty.
C10_TargetWins ==
  (op = "applyConfig" /\ input.config # None) =>
    LET d == input.decl
        cred == GetCredentials(input.config[1], d.host)
        declared(f) == f # None /\ f[1] # ""
    IN /\ output.Username = IF declared(d.username) THEN d.username[1]
                            ELSE cred.username
       /\ output.Password = IF declared(d.password) THEN d.password[1]
                            ELSE cred.password
       /\ output.Insecure = IF d.insecure # None THEN d.insecure[1]
                            ELSE cred.insecure

\* the Results Run returned, and how many of them failed and errored
ReportResults == IF input.ret.result = None THEN <<>> ELSE input.ret.result[1].Results
ReportFailed ==
  Cardinality({i \in DOMAIN ReportResults :
                 ReportResults[i].Error = ErrNil /\ ~ReportResults[i].Passed})
ReportErrored ==
  Cardinality({i \in DOMAIN ReportResults : ReportResults[i].Error # ErrNil})
ReportUnsuccessful ==
  input.ret.err # ErrNil \/ ReportFailed > 0 \/ ReportErrored > 0

\* the counts of failed and of errored Results are reported apart, in the
\* JSON summary and in the text summary
ReportCountsApart ==
  /\ output.json # None =>
       /\ output.json[1].Summary.Failed = ReportFailed
       /\ output.json[1].Summary.Errors = ReportErrored
       /\ \A i \in DOMAIN ReportResults :
            output.json[1].Results[i].Status =
              (IF ReportResults[i].Error # ErrNil THEN "error"
               ELSE IF ReportResults[i].Passed THEN "pass" ELSE "fail")
  /\ output.text # None =>
       /\ output.text[1].Failed = ReportFailed
       /\ output.text[1].Errors =
            (IF ReportErrored > 0 THEN Some(ReportErrored) ELSE None)

\* C11 (amended): the run command exits with status 1 exactly when a Result
\* failed or errored or Run returned an error, and with status 0 otherwise;
\* the JSON document is written exactly when the format is json and Run
\* returned no error, and its Success is false exactly when a Result failed
\* or errored; failed and errored counts are reported apart.
C11_ExitStatusAndSuccess ==
  op = "runAssertions" =>
    /\ output.exit = (IF ReportUnsuccessful THEN 1 ELSE 0)
    /\ output.json # None <=> (input.format = "json" /\ input.ret.err = ErrNil)
    /\ output.json # None => output.json[1].Summary.Success = ~ReportUnsuccessful
    /\ ReportCountsApart

\* C11 witness: a JSON report of a run with a passed, a failed and an errored
\* Result: exit status 1, Success false, one failure and one error counted.
C11_Witness ==
  /\ op = "runAssertions"
  /\ input.format = "json"
  /\ ReportFailed = 1
  /\ ReportErrored = 1
  /\ Len(ReportResults) = 3
  /\ output.exit = 1
  /\ output.json # None
  /\ ~output.json[1].Summary.Success
  /\ output.json[1].Summary.Passed = 1

\* C11 as stated: exit status 1 and, with the JSON format, Success=false in
\* the JSON output whenever a Result failed or errored or Run returned an
\* error; success only when every assertion passed; counts kept apart.
C11_UnsuccessfulInJSON ==
  op = "runAssertions" =>
    /\ output.exit = (IF ReportUnsuccessful THEN 1 ELSE 0)
    /\ input.format = "json" =>
         /\ output.json # None
         /\ output.json[1].Summary.Success = ~ReportUnsuccessful
    /\ ReportCountsApart

\* C12: with --fail-fast set, once an assertion has failed or errored no
\* further assertion starts its fetch.
C12_FailFastStops ==
  [][(failFast /\ \E t \in T : \E i \in 1..Len(results[t]) :
                    results[t][i].Error # ErrNil \/ ~results[t][i].Passed) =>
       \A t \in T : \A a \in A(t) : apc[t][a] = "start" => apc'[t][a] = "start"]_vars

\* the flags of an assertion that are set and true
ExistsTrue(a) == a.Exists # None /\ a.Exists[1]
AbsentTrue(a) == a.Absent # None /\ a.Absent[1]

\* the value predicates of an assertion that are set
ValueKinds(a) ==
  {k \in {"Equals", "Contains", "Matches", "GT", "LT", "GTE", "LTE"} : a[k] # None}

\* C13: with Exists set and true Validate returns Passed = exists without an
\* error; otherwise with Absent set and true it returns Passed = ~exists
\* without an error; whatever the value and the other predicate fields.
C13_ExistsAbsent ==
  op = "Validate" =>
    /\ ExistsTrue(input.a) =>
         output.Passed = input.exists /\ output.Error = ErrNil
    /\ (~ExistsTrue(input.a) /\ AbsentTrue(input.a)) =>
         output.Passed = ~input.exists /\ output.Error = ErrNil

\* C13 witness: an Absent assertion that also carries Equals and GT passes on
\* a missing path.
C13_Witness ==
  /\ op = "Validate"
  /\ ~ExistsTrue(input.a)
  /\ AbsentTrue(input.a)
  /\ {"Equals", "GT"} \subseteq ValueKinds(input.a)
  /\ ~input.exists
  /\ output.Passed
  /\ output.Error = ErrNil

\* C14: for an assertion whose Exists and Absent are not set and true,
\* Validate on a missing path returns the error "path does not exist" and
\* Passed = false, whatever predicate is set and whatever the value.
C14_MissingPathError ==
  (op = "Validate" /\ ~ExistsTrue(input.a) /\ ~AbsentTrue(input.a)
     /\ ~input.exists) =>
    output.Error = <<"path does not exist">> /\ ~output.Passed

\* C14 witness: an Equals assertion whose operand equals the value handed in
\* gets the error on a missing path.
C14_Witness ==
  /\ op = "Validate"
  /\ ~input.exists
  /\ input.a.Exists = Some(FALSE)
  /\ input.a.Equals = Some(input.value)
  /\ output.Error = <<"path does not exist">>
  /\ ~output.Passed

\* C15: an assertion with no predicate kind set (at most Exists = false and
\* Absent = false) gets an error verdict and never Passed = true, for every
\* value and for exists true and false.
C15_NoPredicateError ==
  (op = "Validate" /\ ~ExistsTrue(input.a) /\ ~AbsentTrue(input.a)
     /\ ValueKinds(input.a) = {}) =>
    output.Error # ErrNil /\ ~output.Passed

\* C15 witness: an assertion with only Exists = false and Absent = false gets
\* "no assertion type specified" on an existing path.
C15_Witness ==
  /\ op = "Validate"
  /\ input.a.Exists = Some(FALSE)
  /\ input.a.Absent = Some(FALSE)
  /\ ValueKinds(input.a) = {}
  /\ input.exists
  /\ input.value = StrUP
  /\ output.Error = <<"no assertion type specified">>

\* the assertion that keeps only the highest-priority predicate of a
OnlyHighest(a) ==
  LET base == [NoPredicate EXCEPT !.Name = a.Name, !.Path = a.Path]
  IN IF ExistsTrue(a) THEN [base EXCEPT !.Exists = a.Exists]
     ELSE IF AbsentTrue(a) THEN [base EXCEPT !.Absent = a.Absent]
     ELSE IF a.Equals # None THEN [base EXCEPT !.Equals = a.Equals]
     ELSE IF a.Contains # None THEN [base EXCEPT !.Contains = a.Contains]
     ELSE IF a.Matches # None THEN [base EXCEPT !.Matches = a.Matches]
     ELSE IF a.GT # None THEN [base EXCEPT !.GT = a.GT]
     ELSE IF a.LT # None THEN [base EXCEPT !.LT = a.LT]
     ELSE IF a.GTE # None THEN [base EXCEPT !.GTE = a.GTE]
     ELSE IF a.LTE # None THEN [base EXCEPT !.LTE = a.LTE]
     ELSE base

\* the predicate kinds that are set
SetKinds(a) ==
  ValueKinds(a) \cup (IF ExistsTrue(a) THEN {"Exists"} ELSE {})
                \cup (IF AbsentTrue(a) THEN {"Absent"} ELSE {})

\* C16: when several predicate kinds are set the verdict is the verdict of
\* the assertion that has only the first of them in the order Exists(true),
\* Absent(true), Equals, Contains, Matches, GT, LT, GTE, LTE.
C16_Priority ==
  (op = "Validate" /\ Cardinality(SetKinds(input.a)) >= 2) =>
    LET single == Validate(OnlyHighest(input.a), input.value, input.exists)
    IN output.Passed = single.Passed /\ output.Error = single.Error

\* C16 witness: Equals and Contains are both set, the value contains the
\* Contains operand and differs from the Equals operand: the verdict is the
\* failure of Equals.
C16_Witness ==
  /\ op = "Validate"
  /\ SetKinds(input.a) = {"Equals", "Contains"}
  /\ input.exists
  /\ input.value = Str("P")
  /\ ~output.Passed
  /\ output.Error = ErrNil

\* the numbers among the values and thresholds, in tenths
Tenths(s) ==
  CASE s = Str("0") -> 0
    [] s = Str("3") -> 30
    [] s = Str("5") -> 50
    [] s = Str("7") -> 70
    [] s = <<"5", ".", "0">> -> 50
    [] s = <<"-", "2", ".", "5">> -> 0 - 25
    [] s = <<"-", "3">> -> 0 - 30

NumericStrings ==
  {Str("0"), Str("3"), Str("5"), Str("7"), <<"5", ".", "0">>, <<"-", "2", ".", "5">>,
   <<"-", "3">>}

\* the numeric predicate Validate consults, "" when it consults another
NumericKind(a) ==
  IF ExistsTrue(a) \/ AbsentTrue(a) \/ a.Equals # None \/ a.Contains # None
     \/ a.Matches # None THEN ""
  ELSE IF a.GT # None THEN "GT"
  ELSE IF a.LT # None THEN "LT"
  ELSE IF a.GTE # None THEN "GTE"
  ELSE IF a.LTE # None THEN "LTE"
  ELSE ""

\* C17: on an existing path with a numeric value v and a numeric threshold t
\* the assertion passes exactly when v > t (GT), v < t (LT), v >= t (GTE),
\* v <= t (LTE), without an error.
C17_NumericComparison ==
  (op = "Validate" /\ input.exists /\ NumericKind(input.a) # ""
     /\ input.value \in NumericStrings
     /\ input.a[NumericKind(input.a)][1] \in NumericStrings) =>
    LET k == NumericKind(input.a)
        v == Tenths(input.value)
        t == Tenths(input.a[k][1])
    IN /\ output.Error = ErrNil
       /\ output.Passed = (CASE k = "GT" -> v > t
                             [] k = "LT" -> v < t
                             [] k = "GTE" -> v >= t
                             [] k = "LTE" -> v <= t)

\* C17 witness: GTE with threshold 5 passes on the value 5.0.
C17_Witness ==
  /\ op = "Validate"
  /\ input.exists
  /\ NumericKind(input.a) = "GTE"
  /\ input.a.GTE = Some(Str("5"))
  /\ input.value = <<"5", ".", "0">>
  /\ output.Passed
  /\ output.Error = ErrNil

C19_ThreeVerdicts ==
  op \in {"Validate", "runAssertion"} =>
    /\ output.Passed \in BOOLEAN
    /\ output.Error # ErrNil => ~output.Passed

\* C19 witness: the runner's Result of an Absent assertion whose fetch
\* failed is an error, although Validate would have passed a missing path.
C19_Witness ==
  /\ op = "runAssertion"
  /\ AbsentTrue(input.a)
  /\ ~ExistsTrue(input.a)
  /\ input.rpc = RpcError(TextUnavailable)
  /\ output.Error # ErrNil
  /\ ~output.Passed

\* the bracket depth at which the i-th rune of p is read: the '[' before it
\* less the ']' before it
DepthAt(p, i) ==
  Cardinality({j \in 1..(i - 1) : p[j] = "["})
    - Cardinality({j \in 1..(i - 1) : p[j] = "]"})

\* the separators of p: its '/' at bracket depth zero
Separators(p) == {i \in 1..Len(p) : p[i] = "/" /\ DepthAt(p, i) = 0}

\* the leading separators, the separators that repeat the one before them,
\* and the trailing separators
Leading(p) == {i \in Separators(p) : \A j \in 1..i : j \in Separators(p)}
Repeated(p) == {i \in Separators(p) : i - 1 \in Separators(p)}
Trailing(p) == {i \in Separators(p) : \A j \in i..Len(p) : j \in Separators(p)}

\* p without the runes at the positions of drop
Without(p, drop) ==
  LET keep == {i \in 1..Len(p) : i \notin drop}
      RECURSIVE Pick(_)
      Pick(ks) == IF ks = {} THEN <<>>
                  ELSE LET i == CHOOSE k \in ks : \A m \in ks : k <= m
                       IN <<p[i]>> \o Pick(ks \ {i})
  IN Pick(keep)

RECURSIVE JoinSegments(_)
\* strings.Join(segs, "/")
JoinSegments(segs) ==
  IF segs = <<>> THEN <<>>
  ELSE IF Len(segs) = 1 THEN segs[1]
  ELSE segs[1] \o <<"/">> \o JoinSegments(Tail(segs))

\* the non-empty stretches of p between two neighbouring separators (or an
\* end of p), from left to right
Stretches(p) ==
  LET cuts == Separators(p) \cup {0, Len(p) + 1}
      starts == {i \in cuts : /\ i <= Len(p)
                              /\ i + 1 \notin cuts}
      end(i) == CHOOSE j \in cuts : j > i /\ \A m \in cuts : m > i => j <= m
      RECURSIVE Walk(_)
      Walk(ss) == IF ss = {} THEN <<>>
                  ELSE LET i == CHOOSE k \in ss : \A m \in ss : k <= m
                       IN <<SubSeq(p, i + 1, end(i) - 1)>> \o Walk(ss \ {i})
  IN Walk(starts)

\* splitPath cuts at the separators and nowhere else, and returns no empty
\* segment and nothing for the empty path
SplitsAtDepthZero ==
  /\ output = Stretches(input)
  /\ \A k \in 1..Len(output) : output[k] # <<>>
  /\ input = <<>> => output = <<>>

\* C20 (amended): splitPath splits a path at its '/' of bracket depth zero
\* only; the segments joined with '/' are the input without its leading,
\* repeated and trailing separators; no segment is empty and the empty path
\* yields the empty sequence.
C20_SplitPath ==
  op = "splitPath" =>
    /\ SplitsAtDepthZero
    /\ JoinSegments(output) =
         Without(input, Leading(input) \cup Repeated(input) \cup Trailing(input))

\* C20 witness: the path [/]/ has a '/' inside a bracket group, which stays
\* in the segment, and a trailing separator, which is dropped.
C20_Witness ==
  /\ op = "splitPath"
  /\ input = <<"[", "/", "]", "/">>
  /\ output = << <<"[", "/", "]">> >>

\* C20 as stated: the segments joined with '/' are the input without its
\* leading and repeated separators.
C20_JoinLeadingRepeated ==
  op = "splitPath" =>
    /\ SplitsAtDepthZero
    /\ JoinSegments(output) =
         Without(input, Leading(input) \cup Repeated(input))

\* the brackets of p are unbalanced: the depth is negative somewhere or is
\* not zero at the end
Unbalanced(p) ==
  \/ \E i \in 1..(Len(p) + 1) : DepthAt(p, i) < 0
  \/ DepthAt(p, Len(p) + 1) # 0

\* C21: parsing a path whose brackets are unbalanced fails with an error and
\* yields no path, and Get does not send it.
C21_UnbalancedRejected ==
  (op = "parsePath" /\ Unbalanced(input.path)) =>
    /\ output.parsed.err # ErrNil
    /\ output.parsed.path = None
    /\ output.got.err # ErrNil

\* a '[' of s with no ']' after it
UnclosedBracket(s) ==
  \E i \in 1..Len(s) : s[i] = "[" /\ \A j \in (i + 1)..Len(s) : s[j] # "]"

\* a '[' of s whose text up to the next ']' holds no '='
GroupWithoutEquals(s) ==
  \E i \in 1..Len(s) : \E j \in (i + 1)..Len(s) :
    /\ s[i] = "["
    /\ s[j] = "]"
    /\ \A k \in (i + 1)..(j - 1) : s[k] \notin {"]", "="}

\* C22: parsePathElem returns an error and no element for every segment in
\* which a '[' is never closed or a bracketed group holds no '='.
C22_UnclosedOrNoEqualsRejected ==
  (op = "parsePathElem"
     /\ (UnclosedBracket(input.segment) \/ GroupWithoutEquals(input.segment))) =>
    output.err # ErrNil /\ output.elem = None

RECURSIVE CompleteGroups(_)
\* the number of [key=value] groups s is a concatenation of; -1 when s is
\* no such concatenation
CompleteGroups(s) ==
  IF s = <<>> THEN 0
  ELSE LET end == Index(s, "]")
           rest == CompleteGroups(SubSeq(s, end + 1, Len(s)))
       IN IF s[1] = "[" /\ end > 0
             /\ (\E k \in 2..(end - 1) : s[k] = "=") /\ rest >= 0
            THEN rest + 1
            ELSE 0 - 1

\* C23: a segment with a '[' is accepted only when the text from the first
\* '[' on is a concatenation of one or more complete [key=value] groups, and
\* then the name is the text before the first '[' and there is one key
\* entry per group.
C23_OnlyCompleteGroups ==
  (op = "parsePathElem" /\ Index(input.segment, "[") > 0
     /\ output.err = ErrNil) =>
    LET start == Index(input.segment, "[")
        groups == CompleteGroups(SubSeq(input.segment, start, Len(input.segment)))
    IN /\ groups >= 1
       /\ output.elem[1].Name = SubSeq(input.segment, 1, start - 1)
       /\ Cardinality(DOMAIN output.elem[1].Key) = groups

\* the short forms in table order: the prefix, and for a form with an
\* instance the text put before and after the instance in the full path
ShortForms ==
  <<[short |-> TextBgp, keyed |-> TRUE, head |-> TextNiHead, mid |-> TextBgpMid],
    [short |-> TextOspf, keyed |-> TRUE, head |-> TextNiHead, mid |-> TextOspfMid],
    [short |-> TextIsis, keyed |-> TRUE, head |-> TextNiHead, mid |-> TextIsisMid],
    [short |-> TextInterface, keyed |-> TRUE, head |-> TextIfHead,
     mid |-> TextGroupEnd],
    [short |-> TextLldp, keyed |-> FALSE, head |-> <<"/">>, mid |-> <<>>],
    [short |-> TextSystem, keyed |-> FALSE, head |-> <<"/">>, mid |-> <<>>],
    [short |-> TextNetworkInstance, keyed |-> TRUE, head |-> TextNiHead,
     mid |-> TextGroupEnd]>>

\* the lengths n for which p is f.short, an instance of n runes without
\* ']', "]/" and a rest
InstanceLengths(p, f) ==
  {n \in 1..Len(p) :
     /\ Len(p) >= Len(f.short) + n + 2
     /\ SubSeq(p, 1, Len(f.short)) = f.short
     /\ \A k \in 1..n : p[Len(f.short) + k] # "]"
     /\ p[Len(f.short) + n + 1] = "]"
     /\ p[Len(f.short) + n + 2] = "/"}

\* the entry matches p
FormMatches(p, f) ==
  IF f.keyed THEN InstanceLengths(p, f) # {}
  ELSE Len(p) >= Len(f.short) /\ SubSeq(p, 1, Len(f.short)) = f.short

\* the full path of p by entry f: instance and rest put in as they are
FullPath(p, f) ==
  IF f.keyed
    THEN LET n == CHOOSE k \in InstanceLengths(p, f) : TRUE
             from == Len(f.short)
         IN f.head \o SubSeq(p, from + 1, from + n) \o f.mid
              \o SubSeq(p, from + n + 3, Len(p))
    ELSE f.head \o p

\* the entries that match p
MatchingForms(p) == {i \in 1..Len(ShortForms) : FormMatches(p, ShortForms[i])}

\* a path in a supported short form
SupportedShortForm(p) == (p = <<>> \/ p[1] # "/") /\ MatchingForms(p) # {}

\* C24: ExpandPath returns a path that starts with '/' unchanged; otherwise
\* the template of the first matching table entry with the instance and the
\* rest of the path put in verbatim; and '/' followed by the input when no
\* entry matches.
C24_FirstEntryTemplate ==
  op = "ExpandPath" =>
    output.expanded =
      (IF input # <<>> /\ input[1] = "/" THEN input
       ELSE IF MatchingForms(input) = {} THEN <<"/">> \o input
       ELSE FullPath(input, ShortForms[CHOOSE i \in MatchingForms(input) :
                                         \A j \in MatchingForms(input) : i <= j]))

\* C25: for every full path p that ExpandPath produced from a supported
\* short form, ExpandPath(CompactPath(p)) = p.
C25_RoundTrip ==
  (op = "ExpandPath" /\ SupportedShortForm(input)) =>
    output.reexpanded = output.expanded

\* C29: ExpandPath(p) starts with '/' for every p, and expanding it again
\* changes nothing.
C29_IdempotentAbsolute ==
  op = "ExpandPath" =>
    /\ HasPrefix(output.expanded, <<"/">>)
    /\ output.twice = output.expanded

\* C29 witness: an interface short form was expanded, and the second
\* expansion returned the same full path.
C29_Witness ==
  /\ op = "ExpandPath"
  /\ HasPrefix(input, TextInterface)
  /\ SupportedShortForm(input)
  /\ HasPrefix(output.expanded, TextIfHead)
  /\ output.twice = output.expanded

\* C26: Run returns in the end, for every number of targets and assertions
\* and every Workers and Parallel (zero and negative included), and every
\* goroutine it started has ended by then, also when targets fail to connect.
C26_RunTerminates ==
  <>(/\ mpc = "done"
     /\ \A t \in T : /\ tpc[t] = "done"
                     /\ \A a \in A(t) : apc[t][a] \in {"none", "done"})

\* C26 witness: Run has returned with Workers = -1 and Parallel = -1 after
\* one of two targets failed to connect and the other ran its assertion.
C26_Witness ==
  /\ mpc = "done"
  /\ Workers = 0 - 1
  /\ Parallel = 0 - 1
  /\ Len(af) = 2
  /\ \E t \in T : ConnectFailed(t)
  /\ \E t \in T : Len(results[t]) > 0

\* the line printResult writes for a Result
OutputLine(res) == <<printStatus(res), GetName(res.Assertion), res.Target>>

\* C27: when Run returns the error of a failed connection, every target
\* that connected has run all of its assertions, written each Result to
\* Output and closed its connection; Run returns no RunResult.
C27_OthersComplete ==
  (mpc = "done" /\ runErr # ErrNil) =>
    /\ runResult = None
    /\ \A t \in T :
         ~ConnectFailed(t) =>
           /\ connects[t] = 1
           /\ Len(results[t]) = Len(af[t].Assertions)
           /\ \A a \in A(t) : apc[t][a] = "done"
           /\ \A i \in 1..Len(results[t]) : BagIn(OutputLine(results[t][i]), Output)
           /\ conn[t] = "closed"
    /\ BagCardinality(Output) = SumTo([t \in T |-> Len(results[t])], Len(af))

\* C27 witness: Run returned a connection error of one target while the
\* other target ran two assertions, printed both and closed its connection.
C27_Witness ==
  /\ mpc = "done"
  /\ runErr # ErrNil
  /\ \E t, u \in T :
       /\ ConnectFailed(t)
       /\ conn[u] = "closed"
       /\ Len(results[u]) = 2
       /\ BagCardinality(Output) = 2

\* the answers that mean the path is missing: a response without
\* notification or update, an error whose text holds "NotFound" or
\* "not found"
MissingRpcs ==
  {RpcEmpty, RpcError(TextNotFound), RpcError(TextNotFoundLower),
   RpcError(TextUnavailable \o Str(" ") \o TextNotFound)}

\* C28: a fetch answered with a NotFound / not found error or with no
\* notification or update is no fetch error: the Result has the value "",
\* an Exists assertion fails, an Absent assertion passes, and every other
\* assertion gets the error "path does not exist".
C28_MissingPathNoFetchError ==
  (op = "runAssertion" /\ input.rpc \in MissingRpcs) =>
    /\ output.ActualValue = <<>>
    /\ ExistsTrue(input.a) => (~output.Passed /\ output.Error = ErrNil)
    /\ (~ExistsTrue(input.a) /\ AbsentTrue(input.a)) =>
         (output.Passed /\ output.Error = ErrNil)
    /\ (~ExistsTrue(input.a) /\ ~AbsentTrue(input.a)) =>
         (~output.Passed /\ output.Error = <<"path does not exist">>)

\* C28 witness: an Absent assertion passes on a fetch that failed with a
\* text holding "NotFound" after other text.
C28_Witness ==
  /\ op = "runAssertion"
  /\ input.rpc = RpcError(TextUnavailable \o Str(" ") \o TextNotFound)
  /\ AbsentTrue(input.a)
  /\ ~ExistsTrue(input.a)
  /\ output.Passed
  /\ output.Error = ErrNil

\* C30: a consulted GT, LT, GTE or LTE whose threshold is no number gives no
\* error: the numeric value is compared against 0 and the Result is a plain
\* pass or fail.
C30_BadThresholdIsZero ==
  (op = "Validate" /\ input.exists /\ NumericKind(input.a) # ""
     /\ input.value \in NumericStrings
     /\ input.a[NumericKind(input.a)][1] \notin NumericStrings) =>
    LET k == NumericKind(input.a)
        v == Tenths(input.value)
    IN /\ output.Error = ErrNil
       /\ output.Passed = (CASE k = "GT" -> v > 0
                             [] k = "LT" -> v < 0
                             [] k = "GTE" -> v >= 0
                             [] k = "LTE" -> v <= 0)

\* C30 witness: GT with the threshold abc passes on the value 3.
C30_Witness ==
  /\ op = "Validate"
  /\ input.exists
  /\ NumericKind(input.a) = "GT"
  /\ input.a.GT = Some(TextAbc)
  /\ input.value = Str("3")
  /\ output.Passed
  /\ output.Error = ErrNil

====
